---- MODULE Spec2Model ----
(***************************************************************************)
(* A model of generate_timeline_svg (src/generate_timeline.py): the        *)
(* pipeline parse -> sort -> group -> layout -> render -> finalize ->      *)
(* write, as a state machine with one action per loop iteration or         *)
(* straight-line block.  The strings of the input (dates, time labels,     *)
(* event texts) are sequences of Unicode code points; the fixed colours    *)
(* are plain strings.  The document under construction is kept structured: *)
(* an envelope/style header, one record per emitted day group, and the     *)
(* closing tag.                                                            *)
(***************************************************************************)
EXTENDS Integers, Sequences, FiniteSets, TLC

\* ------------------------------------------------------------------ bounds
\* longest input list drawn from EventPool
MaxEvents == 3
\* number of distinct one-event days available to the wide inputs
MaxDates == 7

\* ------------------------------------------------------- program constants
\* wrap(paragraph, width=14)
wrap_width == 14
\* len(lines) * 15
line_height == 15
\* ... + 10 in event_heights
event_padding == 10
\* len(day_events) * 10
event_gap == 10
\* y_offset += len(lines) * 15 + 20
event_step == 20
\* y="{20 + j*15}"
first_line_y == 20
\* max(1100, ...)
min_width == 1100
\* date_count * 180
width_per_date == 180
\* svg_height = 500
svg_height == 500
\* timeline_y = 100
timeline_y == 100
\* date_spacing = 160
date_spacing == 160
\* current_x = 80
initial_x == 80
\* x1="50", x2="{svg_width-50}"
line_margin == 50
\* timeline_y + total_height + 50
bottom_margin == 50
\* translate(0,25) of the day-group container
group_dy == 25
\* y1="-15" of the connector
connector_y1 == -15
\* y="-20" of the date label
date_label_y == -20

\* ----------------------------------------------------------------- helpers
Max(a, b) == IF a >= b THEN a ELSE b

Front(s) == SubSeq(s, 1, Len(s) - 1)

Last(s) == s[Len(s)]

RECURSIVE Concat(_)
\* ''.join(chunks) on sequences of character sequences
Concat(ss) == IF ss = <<>> THEN <<>> ELSE Head(ss) \o Concat(Tail(ss))

RECURSIVE SplitOn(_, _)
\* str.split(sep) for a one-character separator: always at least one field
SplitOn(s, sep) ==
  IF \A i \in 1..Len(s) : s[i] # sep
  THEN <<s>>
  ELSE LET k == CHOOSE i \in 1..Len(s) :
                  s[i] = sep /\ \A j \in 1..(i - 1) : s[j] # sep
       IN  <<SubSeq(s, 1, k - 1)>> \o SplitOn(SubSeq(s, k + 1, Len(s)), sep)

\* ---------------------------------------- datetime.strptime(s, "%Y-%m-%d")
\* A character is its Unicode code point.  The regex class \d of str patterns
\* is the decimal digits of every script: each pair is a run of such digits,
\* starting at a zero and a multiple of ten long.
DecimalRanges ==
  { <<48, 57>>, <<1632, 1641>>, <<1776, 1785>>, <<1984, 1993>>,
    <<2406, 2415>>, <<2534, 2543>>, <<2662, 2671>>, <<2790, 2799>>,
    <<2918, 2927>>, <<3046, 3055>>, <<3174, 3183>>, <<3302, 3311>>,
    <<3430, 3439>>, <<3558, 3567>>, <<3664, 3673>>, <<3792, 3801>>,
    <<3872, 3881>>, <<4160, 4169>>, <<4240, 4249>>, <<6112, 6121>>,
    <<6160, 6169>>, <<6470, 6479>>, <<6608, 6617>>, <<6784, 6793>>,
    <<6800, 6809>>, <<6992, 7001>>, <<7088, 7097>>, <<7232, 7241>>,
    <<7248, 7257>>, <<42528, 42537>>, <<43216, 43225>>, <<43264, 43273>>,
    <<43472, 43481>>, <<43504, 43513>>, <<43600, 43609>>, <<44016, 44025>>,
    <<65296, 65305>>, <<66720, 66729>>, <<68912, 68921>>, <<69734, 69743>>,
    <<69872, 69881>>, <<69942, 69951>>, <<70096, 70105>>, <<70384, 70393>>,
    <<70736, 70745>>, <<70864, 70873>>, <<71248, 71257>>, <<71360, 71369>>,
    <<71472, 71481>>, <<71904, 71913>>, <<72016, 72025>>, <<72784, 72793>>,
    <<73040, 73049>>, <<73120, 73129>>, <<92768, 92777>>, <<92864, 92873>>,
    <<93008, 93017>>, <<120782, 120831>>, <<123200, 123209>>,
    <<123632, 123641>>, <<125264, 125273>>, <<130032, 130041>> }

IsDecimal(c) ==
  IF c < 128 THEN 48 <= c /\ c <= 57
  ELSE \E r \in DecimalRanges : r[1] <= c /\ c <= r[2]

\* the characters \d matches
Digits == UNION { r[1]..r[2] : r \in DecimalRanges }

\* the value int() gives a digit; 0 for the blank int() strips
DigitVal(c) ==
  IF 48 <= c /\ c <= 57 THEN c - 48
  ELSE IF IsDecimal(c)
  THEN LET r == CHOOSE r \in DecimalRanges : r[1] <= c /\ c <= r[2]
       IN  (c - r[1]) % 10
  ELSE 0

RECURSIVE NumVal(_)
NumVal(s) == IF s = <<>> THEN 0 ELSE NumVal(Front(s)) * 10 + DigitVal(Last(s))

IsDigits(s) == \A i \in 1..Len(s) : IsDecimal(s[i])

\* [1-9] and [0-9] written out in the regex are ASCII
Ascii1to9 == 49..57

\* %Y : \d\d\d\d
YearField(f) == Len(f) = 4 /\ IsDigits(f)

\* %m : 1[0-2]|0[1-9]|[1-9]
MonthField(f) ==
  \/ Len(f) = 2 /\ f[1] = 49 /\ f[2] \in 48..50
  \/ Len(f) = 2 /\ f[1] = 48 /\ f[2] \in Ascii1to9
  \/ Len(f) = 1 /\ f[1] \in Ascii1to9

\* %d : 3[0-1]|[1-2]\d|0[1-9]|[1-9]| [1-9]
DayField(f) ==
  \/ Len(f) = 2 /\ f[1] = 51 /\ f[2] \in 48..49
  \/ Len(f) = 2 /\ f[1] \in 49..50 /\ IsDecimal(f[2])
  \/ Len(f) = 2 /\ f[1] = 48 /\ f[2] \in Ascii1to9
  \/ Len(f) = 1 /\ f[1] \in Ascii1to9
  \/ Len(f) = 2 /\ f[1] = 32 /\ f[2] \in Ascii1to9

IsLeap(y) == (y % 4 = 0 /\ y % 100 # 0) \/ y % 400 = 0

DaysInMonth(y, m) ==
  IF m = 2 THEN (IF IsLeap(y) THEN 29 ELSE 28)
  ELSE IF m \in {4, 6, 9, 11} THEN 30 ELSE 31

\* A ValueError is ok = FALSE.  val orders dates as datetime objects compare.
\* The regex has to match the whole string, and no field can hold a "-" (45),
\* so the string is three fields between two "-", each matching its directive.
ParseDate(s) ==
  LET f == SplitOn(s, 45)
      matches == /\ Len(f) = 3
                 /\ YearField(f[1])
                 /\ MonthField(f[2])
                 /\ DayField(f[3])
      y == NumVal(f[1])
      m == NumVal(f[2])
      d == NumVal(f[3])
  IN  IF matches /\ y >= 1 /\ d <= DaysInMonth(y, m)
      THEN [ok |-> TRUE, val |-> y * 10000 + m * 100 + d]
      ELSE [ok |-> FALSE, val |-> 0]

\* ------------------------------------------- textwrap.wrap(text, width=14)
\* the characters str.strip() removes (str.isspace)
SpaceChars ==
  { 9, 10, 11, 12, 13, 28, 29, 30, 31, 32, 133, 160, 5760, 8192, 8193, 8194, 8195, 8196, 8197, 8198, 8199, 8200, 8201, 8202, 8232, 8233, 8239, 8287, 12288 }

\* the regex class \w of str patterns, as runs of code points
WordRanges ==
  { <<48, 57>>, <<65, 90>>, <<95, 95>>, <<97, 122>>, <<170, 170>>,
    <<178, 179>>, <<181, 181>>, <<185, 186>>, <<188, 190>>, <<192, 214>>,
    <<216, 246>>, <<248, 705>>, <<710, 721>>, <<736, 740>>, <<748, 748>>,
    <<750, 750>>, <<880, 884>>, <<886, 887>>, <<890, 893>>, <<895, 895>>,
    <<902, 902>>, <<904, 906>>, <<908, 908>>, <<910, 929>>, <<931, 1013>>,
    <<1015, 1153>>, <<1162, 1327>>, <<1329, 1366>>, <<1369, 1369>>,
    <<1376, 1416>>, <<1488, 1514>>, <<1519, 1522>>, <<1568, 1610>>,
    <<1632, 1641>>, <<1646, 1647>>, <<1649, 1747>>, <<1749, 1749>>,
    <<1765, 1766>>, <<1774, 1788>>, <<1791, 1791>>, <<1808, 1808>>,
    <<1810, 1839>>, <<1869, 1957>>, <<1969, 1969>>, <<1984, 2026>>,
    <<2036, 2037>>, <<2042, 2042>>, <<2048, 2069>>, <<2074, 2074>>,
    <<2084, 2084>>, <<2088, 2088>>, <<2112, 2136>>, <<2144, 2154>>,
    <<2160, 2183>>, <<2185, 2190>>, <<2208, 2249>>, <<2308, 2361>>,
    <<2365, 2365>>, <<2384, 2384>>, <<2392, 2401>>, <<2406, 2415>>,
    <<2417, 2432>>, <<2437, 2444>>, <<2447, 2448>>, <<2451, 2472>>,
    <<2474, 2480>>, <<2482, 2482>>, <<2486, 2489>>, <<2493, 2493>>,
    <<2510, 2510>>, <<2524, 2525>>, <<2527, 2529>>, <<2534, 2545>>,
    <<2548, 2553>>, <<2556, 2556>>, <<2565, 2570>>, <<2575, 2576>>,
    <<2579, 2600>>, <<2602, 2608>>, <<2610, 2611>>, <<2613, 2614>>,
    <<2616, 2617>>, <<2649, 2652>>, <<2654, 2654>>, <<2662, 2671>>,
    <<2674, 2676>>, <<2693, 2701>>, <<2703, 2705>>, <<2707, 2728>>,
    <<2730, 2736>>, <<2738, 2739>>, <<2741, 2745>>, <<2749, 2749>>,
    <<2768, 2768>>, <<2784, 2785>>, <<2790, 2799>>, <<2809, 2809>>,
    <<2821, 2828>>, <<2831, 2832>>, <<2835, 2856>>, <<2858, 2864>>,
    <<2866, 2867>>, <<2869, 2873>>, <<2877, 2877>>, <<2908, 2909>>,
    <<2911, 2913>>, <<2918, 2927>>, <<2929, 2935>>, <<2947, 2947>>,
    <<2949, 2954>>, <<2958, 2960>>, <<2962, 2965>>, <<2969, 2970>>,
    <<2972, 2972>>, <<2974, 2975>>, <<2979, 2980>>, <<2984, 2986>>,
    <<2990, 3001>>, <<3024, 3024>>, <<3046, 3058>>, <<3077, 3084>>,
    <<3086, 3088>>, <<3090, 3112>>, <<3114, 3129>>, <<3133, 3133>>,
    <<3160, 3162>>, <<3165, 3165>>, <<3168, 3169>>, <<3174, 3183>>,
    <<3192, 3198>>, <<3200, 3200>>, <<3205, 3212>>, <<3214, 3216>>,
    <<3218, 3240>>, <<3242, 3251>>, <<3253, 3257>>, <<3261, 3261>>,
    <<3293, 3294>>, <<3296, 3297>>, <<3302, 3311>>, <<3313, 3314>>,
    <<3332, 3340>>, <<3342, 3344>>, <<3346, 3386>>, <<3389, 3389>>,
    <<3406, 3406>>, <<3412, 3414>>, <<3416, 3425>>, <<3430, 3448>>,
    <<3450, 3455>>, <<3461, 3478>>, <<3482, 3505>>, <<3507, 3515>>,
    <<3517, 3517>>, <<3520, 3526>>, <<3558, 3567>>, <<3585, 3632>>,
    <<3634, 3635>>, <<3648, 3654>>, <<3664, 3673>>, <<3713, 3714>>,
    <<3716, 3716>>, <<3718, 3722>>, <<3724, 3747>>, <<3749, 3749>>,
    <<3751, 3760>>, <<3762, 3763>>, <<3773, 3773>>, <<3776, 3780>>,
    <<3782, 3782>>, <<3792, 3801>>, <<3804, 3807>>, <<3840, 3840>>,
    <<3872, 3891>>, <<3904, 3911>>, <<3913, 3948>>, <<3976, 3980>>,
    <<4096, 4138>>, <<4159, 4169>>, <<4176, 4181>>, <<4186, 4189>>,
    <<4193, 4193>>, <<4197, 4198>>, <<4206, 4208>>, <<4213, 4225>>,
    <<4238, 4238>>, <<4240, 4249>>, <<4256, 4293>>, <<4295, 4295>>,
    <<4301, 4301>>, <<4304, 4346>>, <<4348, 4680>>, <<4682, 4685>>,
    <<4688, 4694>>, <<4696, 4696>>, <<4698, 4701>>, <<4704, 4744>>,
    <<4746, 4749>>, <<4752, 4784>>, <<4786, 4789>>, <<4792, 4798>>,
    <<4800, 4800>>, <<4802, 4805>>, <<4808, 4822>>, <<4824, 4880>>,
    <<4882, 4885>>, <<4888, 4954>>, <<4969, 4988>>, <<4992, 5007>>,
    <<5024, 5109>>, <<5112, 5117>>, <<5121, 5740>>, <<5743, 5759>>,
    <<5761, 5786>>, <<5792, 5866>>, <<5870, 5880>>, <<5888, 5905>>,
    <<5919, 5937>>, <<5952, 5969>>, <<5984, 5996>>, <<5998, 6000>>,
    <<6016, 6067>>, <<6103, 6103>>, <<6108, 6108>>, <<6112, 6121>>,
    <<6128, 6137>>, <<6160, 6169>>, <<6176, 6264>>, <<6272, 6276>>,
    <<6279, 6312>>, <<6314, 6314>>, <<6320, 6389>>, <<6400, 6430>>,
    <<6470, 6509>>, <<6512, 6516>>, <<6528, 6571>>, <<6576, 6601>>,
    <<6608, 6618>>, <<6656, 6678>>, <<6688, 6740>>, <<6784, 6793>>,
    <<6800, 6809>>, <<6823, 6823>>, <<6917, 6963>>, <<6981, 6988>>,
    <<6992, 7001>>, <<7043, 7072>>, <<7086, 7141>>, <<7168, 7203>>,
    <<7232, 7241>>, <<7245, 7293>>, <<7296, 7304>>, <<7312, 7354>>,
    <<7357, 7359>>, <<7401, 7404>>, <<7406, 7411>>, <<7413, 7414>>,
    <<7418, 7418>>, <<7424, 7615>>, <<7680, 7957>>, <<7960, 7965>>,
    <<7968, 8005>>, <<8008, 8013>>, <<8016, 8023>>, <<8025, 8025>>,
    <<8027, 8027>>, <<8029, 8029>>, <<8031, 8061>>, <<8064, 8116>>,
    <<8118, 8124>>, <<8126, 8126>>, <<8130, 8132>>, <<8134, 8140>>,
    <<8144, 8147>>, <<8150, 8155>>, <<8160, 8172>>, <<8178, 8180>>,
    <<8182, 8188>>, <<8304, 8305>>, <<8308, 8313>>, <<8319, 8329>>,
    <<8336, 8348>>, <<8450, 8450>>, <<8455, 8455>>, <<8458, 8467>>,
    <<8469, 8469>>, <<8473, 8477>>, <<8484, 8484>>, <<8486, 8486>>,
    <<8488, 8488>>, <<8490, 8493>>, <<8495, 8505>>, <<8508, 8511>>,
    <<8517, 8521>>, <<8526, 8526>>, <<8528, 8585>>, <<9312, 9371>>,
    <<9450, 9471>>, <<10102, 10131>>, <<11264, 11492>>, <<11499, 11502>>,
    <<11506, 11507>>, <<11517, 11517>>, <<11520, 11557>>, <<11559, 11559>>,
    <<11565, 11565>>, <<11568, 11623>>, <<11631, 11631>>, <<11648, 11670>>,
    <<11680, 11686>>, <<11688, 11694>>, <<11696, 11702>>, <<11704, 11710>>,
    <<11712, 11718>>, <<11720, 11726>>, <<11728, 11734>>, <<11736, 11742>>,
    <<11823, 11823>>, <<12293, 12295>>, <<12321, 12329>>, <<12337, 12341>>,
    <<12344, 12348>>, <<12353, 12438>>, <<12445, 12447>>, <<12449, 12538>>,
    <<12540, 12543>>, <<12549, 12591>>, <<12593, 12686>>, <<12690, 12693>>,
    <<12704, 12735>>, <<12784, 12799>>, <<12832, 12841>>, <<12872, 12879>>,
    <<12881, 12895>>, <<12928, 12937>>, <<12977, 12991>>, <<13312, 19903>>,
    <<19968, 42124>>, <<42192, 42237>>, <<42240, 42508>>, <<42512, 42539>>,
    <<42560, 42606>>, <<42623, 42653>>, <<42656, 42735>>, <<42775, 42783>>,
    <<42786, 42888>>, <<42891, 42954>>, <<42960, 42961>>, <<42963, 42963>>,
    <<42965, 42969>>, <<42994, 43009>>, <<43011, 43013>>, <<43015, 43018>>,
    <<43020, 43042>>, <<43056, 43061>>, <<43072, 43123>>, <<43138, 43187>>,
    <<43216, 43225>>, <<43250, 43255>>, <<43259, 43259>>, <<43261, 43262>>,
    <<43264, 43301>>, <<43312, 43334>>, <<43360, 43388>>, <<43396, 43442>>,
    <<43471, 43481>>, <<43488, 43492>>, <<43494, 43518>>, <<43520, 43560>>,
    <<43584, 43586>>, <<43588, 43595>>, <<43600, 43609>>, <<43616, 43638>>,
    <<43642, 43642>>, <<43646, 43695>>, <<43697, 43697>>, <<43701, 43702>>,
    <<43705, 43709>>, <<43712, 43712>>, <<43714, 43714>>, <<43739, 43741>>,
    <<43744, 43754>>, <<43762, 43764>>, <<43777, 43782>>, <<43785, 43790>>,
    <<43793, 43798>>, <<43808, 43814>>, <<43816, 43822>>, <<43824, 43866>>,
    <<43868, 43881>>, <<43888, 44002>>, <<44016, 44025>>, <<44032, 55203>>,
    <<55216, 55238>>, <<55243, 55291>>, <<63744, 64109>>, <<64112, 64217>>,
    <<64256, 64262>>, <<64275, 64279>>, <<64285, 64285>>, <<64287, 64296>>,
    <<64298, 64310>>, <<64312, 64316>>, <<64318, 64318>>, <<64320, 64321>>,
    <<64323, 64324>>, <<64326, 64433>>, <<64467, 64829>>, <<64848, 64911>>,
    <<64914, 64967>>, <<65008, 65019>>, <<65136, 65140>>, <<65142, 65276>>,
    <<65296, 65305>>, <<65313, 65338>>, <<65345, 65370>>, <<65382, 65470>>,
    <<65474, 65479>>, <<65482, 65487>>, <<65490, 65495>>, <<65498, 65500>>,
    <<65536, 65547>>, <<65549, 65574>>, <<65576, 65594>>, <<65596, 65597>>,
    <<65599, 65613>>, <<65616, 65629>>, <<65664, 65786>>, <<65799, 65843>>,
    <<65856, 65912>>, <<65930, 65931>>, <<66176, 66204>>, <<66208, 66256>>,
    <<66273, 66299>>, <<66304, 66339>>, <<66349, 66378>>, <<66384, 66421>>,
    <<66432, 66461>>, <<66464, 66499>>, <<66504, 66511>>, <<66513, 66517>>,
    <<66560, 66717>>, <<66720, 66729>>, <<66736, 66771>>, <<66776, 66811>>,
    <<66816, 66855>>, <<66864, 66915>>, <<66928, 66938>>, <<66940, 66954>>,
    <<66956, 66962>>, <<66964, 66965>>, <<66967, 66977>>, <<66979, 66993>>,
    <<66995, 67001>>, <<67003, 67004>>, <<67072, 67382>>, <<67392, 67413>>,
    <<67424, 67431>>, <<67456, 67461>>, <<67463, 67504>>, <<67506, 67514>>,
    <<67584, 67589>>, <<67592, 67592>>, <<67594, 67637>>, <<67639, 67640>>,
    <<67644, 67644>>, <<67647, 67669>>, <<67672, 67702>>, <<67705, 67742>>,
    <<67751, 67759>>, <<67808, 67826>>, <<67828, 67829>>, <<67835, 67867>>,
    <<67872, 67897>>, <<67968, 68023>>, <<68028, 68047>>, <<68050, 68096>>,
    <<68112, 68115>>, <<68117, 68119>>, <<68121, 68149>>, <<68160, 68168>>,
    <<68192, 68222>>, <<68224, 68255>>, <<68288, 68295>>, <<68297, 68324>>,
    <<68331, 68335>>, <<68352, 68405>>, <<68416, 68437>>, <<68440, 68466>>,
    <<68472, 68497>>, <<68521, 68527>>, <<68608, 68680>>, <<68736, 68786>>,
    <<68800, 68850>>, <<68858, 68899>>, <<68912, 68921>>, <<69216, 69246>>,
    <<69248, 69289>>, <<69296, 69297>>, <<69376, 69415>>, <<69424, 69445>>,
    <<69457, 69460>>, <<69488, 69505>>, <<69552, 69579>>, <<69600, 69622>>,
    <<69635, 69687>>, <<69714, 69743>>, <<69745, 69746>>, <<69749, 69749>>,
    <<69763, 69807>>, <<69840, 69864>>, <<69872, 69881>>, <<69891, 69926>>,
    <<69942, 69951>>, <<69956, 69956>>, <<69959, 69959>>, <<69968, 70002>>,
    <<70006, 70006>>, <<70019, 70066>>, <<70081, 70084>>, <<70096, 70106>>,
    <<70108, 70108>>, <<70113, 70132>>, <<70144, 70161>>, <<70163, 70187>>,
    <<70272, 70278>>, <<70280, 70280>>, <<70282, 70285>>, <<70287, 70301>>,
    <<70303, 70312>>, <<70320, 70366>>, <<70384, 70393>>, <<70405, 70412>>,
    <<70415, 70416>>, <<70419, 70440>>, <<70442, 70448>>, <<70450, 70451>>,
    <<70453, 70457>>, <<70461, 70461>>, <<70480, 70480>>, <<70493, 70497>>,
    <<70656, 70708>>, <<70727, 70730>>, <<70736, 70745>>, <<70751, 70753>>,
    <<70784, 70831>>, <<70852, 70853>>, <<70855, 70855>>, <<70864, 70873>>,
    <<71040, 71086>>, <<71128, 71131>>, <<71168, 71215>>, <<71236, 71236>>,
    <<71248, 71257>>, <<71296, 71338>>, <<71352, 71352>>, <<71360, 71369>>,
    <<71424, 71450>>, <<71472, 71483>>, <<71488, 71494>>, <<71680, 71723>>,
    <<71840, 71922>>, <<71935, 71942>>, <<71945, 71945>>, <<71948, 71955>>,
    <<71957, 71958>>, <<71960, 71983>>, <<71999, 71999>>, <<72001, 72001>>,
    <<72016, 72025>>, <<72096, 72103>>, <<72106, 72144>>, <<72161, 72161>>,
    <<72163, 72163>>, <<72192, 72192>>, <<72203, 72242>>, <<72250, 72250>>,
    <<72272, 72272>>, <<72284, 72329>>, <<72349, 72349>>, <<72368, 72440>>,
    <<72704, 72712>>, <<72714, 72750>>, <<72768, 72768>>, <<72784, 72812>>,
    <<72818, 72847>>, <<72960, 72966>>, <<72968, 72969>>, <<72971, 73008>>,
    <<73030, 73030>>, <<73040, 73049>>, <<73056, 73061>>, <<73063, 73064>>,
    <<73066, 73097>>, <<73112, 73112>>, <<73120, 73129>>, <<73440, 73458>>,
    <<73648, 73648>>, <<73664, 73684>>, <<73728, 74649>>, <<74752, 74862>>,
    <<74880, 75075>>, <<77712, 77808>>, <<77824, 78894>>, <<82944, 83526>>,
    <<92160, 92728>>, <<92736, 92766>>, <<92768, 92777>>, <<92784, 92862>>,
    <<92864, 92873>>, <<92880, 92909>>, <<92928, 92975>>, <<92992, 92995>>,
    <<93008, 93017>>, <<93019, 93025>>, <<93027, 93047>>, <<93053, 93071>>,
    <<93760, 93846>>, <<93952, 94026>>, <<94032, 94032>>, <<94099, 94111>>,
    <<94176, 94177>>, <<94179, 94179>>, <<94208, 100343>>, <<100352, 101589>>,
    <<101632, 101640>>, <<110576, 110579>>, <<110581, 110587>>,
    <<110589, 110590>>, <<110592, 110882>>, <<110928, 110930>>,
    <<110948, 110951>>, <<110960, 111355>>, <<113664, 113770>>,
    <<113776, 113788>>, <<113792, 113800>>, <<113808, 113817>>,
    <<119520, 119539>>, <<119648, 119672>>, <<119808, 119892>>,
    <<119894, 119964>>, <<119966, 119967>>, <<119970, 119970>>,
    <<119973, 119974>>, <<119977, 119980>>, <<119982, 119993>>,
    <<119995, 119995>>, <<119997, 120003>>, <<120005, 120069>>,
    <<120071, 120074>>, <<120077, 120084>>, <<120086, 120092>>,
    <<120094, 120121>>, <<120123, 120126>>, <<120128, 120132>>,
    <<120134, 120134>>, <<120138, 120144>>, <<120146, 120485>>,
    <<120488, 120512>>, <<120514, 120538>>, <<120540, 120570>>,
    <<120572, 120596>>, <<120598, 120628>>, <<120630, 120654>>,
    <<120656, 120686>>, <<120688, 120712>>, <<120714, 120744>>,
    <<120746, 120770>>, <<120772, 120779>>, <<120782, 120831>>,
    <<122624, 122654>>, <<123136, 123180>>, <<123191, 123197>>,
    <<123200, 123209>>, <<123214, 123214>>, <<123536, 123565>>,
    <<123584, 123627>>, <<123632, 123641>>, <<124896, 124902>>,
    <<124904, 124907>>, <<124909, 124910>>, <<124912, 124926>>,
    <<124928, 125124>>, <<125127, 125135>>, <<125184, 125251>>,
    <<125259, 125259>>, <<125264, 125273>>, <<126065, 126123>>,
    <<126125, 126127>>, <<126129, 126132>>, <<126209, 126253>>,
    <<126255, 126269>>, <<126464, 126467>>, <<126469, 126495>>,
    <<126497, 126498>>, <<126500, 126500>>, <<126503, 126503>>,
    <<126505, 126514>>, <<126516, 126519>>, <<126521, 126521>>,
    <<126523, 126523>>, <<126530, 126530>>, <<126535, 126535>>,
    <<126537, 126537>>, <<126539, 126539>>, <<126541, 126543>>,
    <<126545, 126546>>, <<126548, 126548>>, <<126551, 126551>>,
    <<126553, 126553>>, <<126555, 126555>>, <<126557, 126557>>,
    <<126559, 126559>>, <<126561, 126562>>, <<126564, 126564>>,
    <<126567, 126570>>, <<126572, 126578>>, <<126580, 126583>>,
    <<126585, 126588>>, <<126590, 126590>>, <<126592, 126601>>,
    <<126603, 126619>>, <<126625, 126627>>, <<126629, 126633>>,
    <<126635, 126651>>, <<127232, 127244>>, <<130032, 130041>>,
    <<131072, 173791>>, <<173824, 177976>>, <<177984, 178205>>,
    <<178208, 183969>>, <<183984, 191456>>, <<194560, 195101>>,
    <<196608, 201546>> }

IsWord(c) ==
  IF c < 128
  THEN c \in (48..57) \cup (65..90) \cup {95} \cup (97..122)
  ELSE \E r \in WordRanges : r[1] <= c /\ c <= r[2]

\* letter = [^\d\W]
IsLetter(c) == IsWord(c) /\ ~IsDecimal(c)

\* word_punct = [\w!"'&.,?]
IsWordPunct(c) == IsWord(c) \/ c \in {33, 34, 39, 38, 46, 44, 63}

\* chunk.strip() == ''
IsBlank(chunk) == \A i \in 1..Len(chunk) : chunk[i] \in SpaceChars

RECURSIVE ExpandTabs(_, _)
\* str.expandtabs(8): a tab fills up to the next multiple of 8 columns, the
\* column starting again after \n and \r
ExpandTabs(s, col) ==
  IF \A k \in 1..Len(s) : s[k] # 9 THEN s
  ELSE IF Head(s) = 9
       THEN [k \in 1..(8 - (col % 8)) |-> 32]
              \o ExpandTabs(Tail(s), col + (8 - (col % 8)))
       ELSE <<Head(s)>>
              \o ExpandTabs(Tail(s), IF Head(s) \in {10, 13} THEN 0 ELSE col + 1)

\* TextWrapper._munge_whitespace: tabs expanded, then \t \n \x0b \x0c \r to " "
MungeWhitespace(s) ==
  LET e == ExpandTabs(s, 0)
  IN  [k \in 1..Len(e) |-> IF e[k] \in {9, 10, 11, 12, 13} THEN 32 ELSE e[k]]

\* the character at p, or -1 off the ends of the text
CharAt(s, p) == IF p >= 1 /\ p <= Len(s) THEN s[p] ELSE -1

RECURSIVE HyphenRun(_, _)
\* how many "-" stand at p and after
HyphenRun(s, p) == IF CharAt(s, p) = 45 THEN 1 + HyphenRun(s, p + 1) ELSE 0

\* -{2,} followed by \w
EmDashAt(s, p) ==
  HyphenRun(s, p) >= 2 /\ IsWord(CharAt(s, p + HyphenRun(s, p)))

LetterAt(s, p) == IsLetter(CharAt(s, p))

\* the hyphen at q ends a chunk: (?<=lt{2}-) or (?<=lt-lt-), then
\* (?= lt -? lt)
HyphenBreakAt(s, q) ==
  /\ CharAt(s, q) = 45
  /\ \/ LetterAt(s, q - 2) /\ LetterAt(s, q - 1)
     \/ LetterAt(s, q - 3) /\ CharAt(s, q - 2) = 45 /\ LetterAt(s, q - 1)
  /\ LetterAt(s, q + 1)
  /\ \/ LetterAt(s, q + 2)
     \/ CharAt(s, q + 2) = 45 /\ LetterAt(s, q + 3)

RECURSIVE RunLen(_, _)
\* the last position of the run of " " that p is in
RunLen(s, p) == IF CharAt(s, p + 1) = 32 THEN RunLen(s, p + 1) ELSE p

RECURSIVE WordEnd(_, _)
\* the lazy [^ws]+? of a word that has taken the characters before q: the
\* last position of the chunk
WordEnd(s, q) ==
  IF HyphenBreakAt(s, q) THEN q
  ELSE IF q > Len(s) \/ s[q] = 32 THEN q - 1
  ELSE IF EmDashAt(s, q) /\ IsWordPunct(CharAt(s, q - 1)) THEN q - 1
  ELSE WordEnd(s, q + 1)

\* the last position of the match of wordsep_re that starts at p
ChunkEnd(s, p) ==
  IF s[p] = 32 THEN RunLen(s, p)
  ELSE IF EmDashAt(s, p) /\ IsWordPunct(CharAt(s, p - 1))
       THEN p + HyphenRun(s, p) - 1
  ELSE WordEnd(s, p + 1)

RECURSIVE SplitFrom(_, _)
SplitFrom(s, p) ==
  IF p > Len(s) THEN <<>>
  ELSE LET end == ChunkEnd(s, p)
       IN  <<SubSeq(s, p, end)>> \o SplitFrom(s, end + 1)

\* TextWrapper._split with break_on_hyphens: wordsep_re.split(text), the
\* empty strings dropped
SplitChunks(s) == SplitFrom(s, 1)

RECURSIVE FillLine(_, _, _)
\* the inner while of _wrap_chunks: take chunks while they fit
FillLine(chunks, cur_line, cur_len) ==
  IF chunks # <<>> /\ cur_len + Len(Head(chunks)) <= wrap_width
  THEN FillLine(Tail(chunks), Append(cur_line, Head(chunks)),
                cur_len + Len(Head(chunks)))
  ELSE [cur_line |-> cur_line, cur_len |-> cur_len, chunks |-> chunks]

\* TextWrapper._handle_long_word with break_long_words: fill what is left,
\* or stop after the last hyphen in it that has a non-hyphen before it
HandleLongWord(st) ==
  LET space_left == wrap_width - st.cur_len
      chunk == Head(st.chunks)
      hyphens == {k \in 2..space_left :
                    /\ k <= Len(chunk)
                    /\ chunk[k] = 45
                    /\ \E j \in 1..(k - 1) : chunk[j] # 45}
      end == IF Len(chunk) > space_left /\ hyphens # {}
             THEN CHOOSE k \in hyphens : \A j \in hyphens : j <= k
             ELSE space_left
  IN  [cur_line |-> Append(st.cur_line, SubSeq(chunk, 1, end)),
       cur_len  |-> st.cur_len + end,
       chunks   |-> <<SubSeq(chunk, end + 1, Len(chunk))>> \o Tail(st.chunks)]

RECURSIVE WrapChunks(_, _)
\* TextWrapper._wrap_chunks
WrapChunks(chunks, lines) ==
  IF chunks = <<>> THEN lines
  ELSE LET c0 == IF IsBlank(Head(chunks)) /\ lines # <<>>
                 THEN Tail(chunks) ELSE chunks
           f  == FillLine(c0, <<>>, 0)
           h  == IF f.chunks # <<>> /\ Len(Head(f.chunks)) > wrap_width
                 THEN HandleLongWord(f) ELSE f
           cl == IF h.cur_line # <<>> /\ IsBlank(Last(h.cur_line))
                 THEN Front(h.cur_line) ELSE h.cur_line
       IN  WrapChunks(h.chunks,
                      IF cl # <<>> THEN Append(lines, Concat(cl)) ELSE lines)

\* TextWrapper.wrap: _split_chunks (munge, split), then _wrap_chunks
Wrap(paragraph) == WrapChunks(SplitChunks(MungeWhitespace(paragraph)), <<>>)

RECURSIVE ExtendWrapped(_)
ExtendWrapped(paragraphs) ==
  IF paragraphs = <<>> THEN <<>>
  ELSE Wrap(Head(paragraphs)) \o ExtendWrapped(Tail(paragraphs))

\* lines = []; for paragraph in text.split('\n'): lines.extend(wrap(paragraph))
WrapText(text) == ExtendWrapped(SplitOn(text, 10))

\* ------------------------------------------------------------ the inputs
\* "2023-01-15"
Chars_2023_01_15 == <<50, 48, 50, 51, 45, 48, 49, 45, 49, 53>>

\* "2023-03-10"
Chars_2023_03_10 == <<50, 48, 50, 51, 45, 48, 51, 45, 49, 48>>

\* "2023-1-15": the same day as 2023-01-15, month not zero-padded
Chars_2023_1_15 == <<50, 48, 50, 51, 45, 49, 45, 49, 53>>

\* "2023-02-30": no such day
Chars_2023_02_30 == <<50, 48, 50, 51, 45, 48, 50, 45, 51, 48>>

Rep(c, n) == [k \in 1..n |-> c]

\* "aaaaaaaa-bbbbbbbb": wraps to two lines, broken after the hyphen
TextTwoLines == Rep(97, 8) \o <<45>> \o Rep(98, 8)

\* "aaa": one line
TextOneLine == Rep(97, 3)

\* "": no line
TextEmpty == <<>>

\* "aa\n\naaaaaaaaaaaaaaaaa": one line, an empty paragraph, two lines
TextParagraphs == <<97, 97, 10, 10>> \o Rep(97, 17)

\* thirty letters: three lines
TextLong == Rep(97, 30)

\* 'height="500"': a label spelt like the provisional height attribute
TimeLikeHeight == <<104, 101, 105, 103, 104, 116, 61, 34, 53, 48, 48, 34>>

EventPool ==
  { [date |-> Chars_2023_03_10, time |-> <<49, 49, 58, 49, 53>>, text |-> TextTwoLines],
    [date |-> Chars_2023_01_15, time |-> <<48, 57, 58, 48, 48>>, text |-> TextOneLine],
    [date |-> Chars_2023_01_15, time |-> TimeLikeHeight, text |-> TextEmpty],
    [date |-> Chars_2023_1_15,  time |-> <<49, 57, 58, 48, 48>>, text |-> TextParagraphs],
    [date |-> Chars_2023_02_30, time |-> <<48, 56, 58, 48, 48>>, text |-> TextLong] }

\* every list of at most MaxEvents events of the pool
SmallInputs == UNION { [1..n -> EventPool] : n \in 0..MaxEvents }

\* the ASCII digit of k
DigitChar(k) == 48 + k

\* one event on 2023-01-0k, at "10:00"
DayEvent(k) ==
  [date |-> <<50, 48, 50, 51, 45, 48, 49, 45, 48>> \o <<DigitChar(k)>>,
   time |-> <<49, 48, 58, 48, 48>>, text |-> TextOneLine]

RECURSIVE Ascending(_)
\* the days of S, one event each, earliest first
Ascending(S) ==
  IF S = {} THEN <<>>
  ELSE LET k == CHOOSE x \in S : \A y \in S : x <= y
       IN  <<DayEvent(k)>> \o Ascending(S \ {k})

Reverse(s) == [k \in 1..Len(s) |-> s[Len(s) + 1 - k]]

\* sets of distinct days, supplied earliest first or latest first
WideInputs ==
  { Ascending(S) : S \in SUBSET (1..MaxDates) }
    \cup { Reverse(Ascending(S)) : S \in SUBSET (1..MaxDates) }

\* --------------------------------------------------- lines 14-25: parsing
\* one iteration of the loop: append the record, or leave the list alone
\* when strptime raises ValueError
ProcessEvent(processed, event) ==
  LET d == ParseDate(event.date)
  IN  IF d.ok
      THEN Append(processed, [date_obj |-> d.val, date_str |-> event.date,
                              time |-> event.time, text |-> event.text])
      ELSE processed

RECURSIVE ProcessAll(_)
ProcessAll(evs) ==
  IF evs = <<>> THEN <<>>
  ELSE ProcessEvent(ProcessAll(Front(evs)), Last(evs))

\* --------------------------------------------------- lines 27-28: sorting
RECURSIVE InsertByDate(_, _)
\* e goes behind every element whose date is not later: the sort is stable
InsertByDate(sorted, e) ==
  IF sorted = <<>> THEN <<e>>
  ELSE IF Last(sorted).date_obj <= e.date_obj THEN Append(sorted, e)
  ELSE Append(InsertByDate(Front(sorted), e), Last(sorted))

RECURSIVE StableSort(_)
StableSort(s) ==
  IF s = <<>> THEN <<>> ELSE InsertByDate(StableSort(Front(s)), Last(s))

\* a sort that was left out
SortByDateOmitted(processed) == processed

\* processed_events.sort(key=lambda x: x["date_obj"])
SortByDate(processed) == StableSort(processed)

\* -------------------------------------------------- lines 30-36: grouping
\* the dict keeps its keys in the order of their first insertion
AddToGroup(groups, event) ==
  IF \E k \in 1..Len(groups) : groups[k].date_str = event.date_str
  THEN [k \in 1..Len(groups) |->
          IF groups[k].date_str = event.date_str
          THEN [groups[k] EXCEPT !.day_events = Append(@, event)]
          ELSE groups[k]]
  ELSE Append(groups, [date_str |-> event.date_str, day_events |-> <<event>>])

RECURSIVE GroupEvents(_)
GroupEvents(processed) ==
  IF processed = <<>> THEN <<>>
  ELSE AddToGroup(GroupEvents(Front(processed)), Last(processed))

\* --------------------------------------------------- lines 38-80: layout
\* svg_width = max(1100, date_count * 180)
SvgWidth(date_count) == Max(min_width, date_count * width_per_date)

\* the colour theme
Palette(dark) ==
  IF dark
  THEN [bg_color |-> "#222222", text_color |-> "#eeeeee",
        secondary_text |-> "#aaaaaa", line_color |-> "#555555",
        connector_color |-> "#666666"]
  ELSE [bg_color |-> "#ffffff", text_color |-> "#333333",
        secondary_text |-> "#555555", line_color |-> "#333333",
        connector_color |-> "#999999"]

\* a header whose baseline is shortened in dark mode
HeaderDarkInset(width, dark) ==
  LET p == Palette(dark)
  IN  [width |-> width, height |-> svg_height,
       viewBox |-> <<0, 0, width, svg_height>>,
       style |-> [background_fill |-> p.bg_color,
                  timeline_stroke |-> p.line_color,
                  connector_stroke |-> p.connector_color,
                  circle_fill |-> "#4a6da7",
                  circle_stroke |-> p.bg_color,
                  anchor_fill |-> "#e74c3c",
                  date_fill |-> p.text_color,
                  time_fill |-> p.secondary_text,
                  event_fill |-> p.text_color],
       baseline |-> [x1 |-> line_margin, y1 |-> timeline_y,
                     x2 |-> IF dark THEN width - 2 * line_margin
                            ELSE width - line_margin,
                     y2 |-> timeline_y]]

\* the envelope, the style block and the baseline
Header(width, dark) ==
  LET p == Palette(dark)
  IN  [width |-> width, height |-> svg_height,
       viewBox |-> <<0, 0, width, svg_height>>,
       style |-> [background_fill |-> p.bg_color,
                  timeline_stroke |-> p.line_color,
                  connector_stroke |-> p.connector_color,
                  circle_fill |-> "#4a6da7",
                  circle_stroke |-> p.bg_color,
                  anchor_fill |-> "#e74c3c",
                  date_fill |-> p.text_color,
                  time_fill |-> p.secondary_text,
                  event_fill |-> p.text_color],
       baseline |-> [x1 |-> line_margin, y1 |-> timeline_y,
                     x2 |-> width - line_margin, y2 |-> timeline_y]]

\* ------------------------------------------------ lines 84-131: rendering
\* an event height without its padding
EventHeightNoPadding(event) == Len(WrapText(event.text)) * line_height

\* an event of no line given no height at all
EventHeightCollapsed(event) ==
  IF WrapText(event.text) = <<>> THEN 0 - event_gap
  ELSE Len(WrapText(event.text)) * line_height + event_padding

\* event_heights.append(len(lines) * 15 + 10)
EventHeight(event) == Len(WrapText(event.text)) * line_height + event_padding

RECURSIVE SumHeights(_)
SumHeights(day_events) ==
  IF day_events = <<>> THEN 0
  ELSE EventHeight(Head(day_events)) + SumHeights(Tail(day_events))

\* a total that forgets the gaps between events
TotalHeightNoGap(day_events) == SumHeights(day_events)

\* total_height = sum(event_heights) + len(day_events) * 10
TotalHeight(day_events) ==
  SumHeights(day_events) + Len(day_events) * event_gap

\* the <text> elements of one event: y = 20 + j*15
RenderLines(lines) ==
  [j \in 1..Len(lines) |->
     [x |-> 15, y |-> first_line_y + (j - 1) * line_height, line |-> lines[j]]]

RECURSIVE RenderEvents(_, _)
\* the inner loop: the emitted event groups and the y_offset it ends with
RenderEvents(day_events, y_offset) ==
  IF day_events = <<>> THEN [out |-> <<>>, y_offset |-> y_offset]
  ELSE LET lines == WrapText(Head(day_events).text)
           rest == RenderEvents(Tail(day_events),
                                y_offset + Len(lines) * line_height + event_step)
       IN  [out |-> <<[y |-> y_offset, time |-> Head(day_events).time,
                       lines |-> RenderLines(lines)]>> \o rest.out,
            y_offset |-> rest.y_offset]

\* one day group as emitted at current_x
RenderGroup(group, current_x) ==
  [date_str |-> group.date_str,
   x |-> current_x, y |-> timeline_y,
   label_y |-> date_label_y,
   container_dy |-> group_dy,
   connector |-> [y1 |-> connector_y1, y2 |-> TotalHeight(group.day_events)],
   events |-> RenderEvents(group.day_events, 0).out]

\* ----------------------------------------------- lines 133-143: finalize
RECURSIVE Decimal(_)
\* the digits an f-string writes for a number that is not negative
Decimal(n) ==
  IF n < 10 THEN <<48 + n>> ELSE Decimal(n \div 10) \o <<48 + (n % 10)>>

\* height="<h>"
HeightAttr(h) == <<104, 101, 105, 103, 104, 116, 61, 34>> \o Decimal(h) \o <<34>>

\* viewBox="0 0 <w> <h>"
ViewBoxAttr(w, h) ==
  <<118, 105, 101, 119, 66, 111, 120, 61, 34, 48, 32, 48, 32>> \o Decimal(w) \o <<32>> \o Decimal(h) \o <<34>>

\* old in s
Occurs(s, old) ==
  \E p \in 1..(Len(s) - Len(old) + 1) :
    s[p] = old[1] /\ SubSeq(s, p, p + Len(old) - 1) = old

RECURSIVE ReplaceAll(_, _, _)
\* str.replace(old, new): every occurrence, left to right, none overlapping
ReplaceAll(s, old, new) ==
  IF ~Occurs(s, old) THEN s
  ELSE IF SubSeq(s, 1, Len(old)) = old
       THEN new \o ReplaceAll(SubSeq(s, Len(old) + 1, Len(s)), old, new)
       ELSE <<Head(s)>> \o ReplaceAll(Tail(s), old, new)

\* what the two replace() calls make of a time label or a line of text
Relabel(s, width, max_height) ==
  ReplaceAll(ReplaceAll(s, HeightAttr(svg_height), HeightAttr(max_height)),
             ViewBoxAttr(width, svg_height), ViewBoxAttr(width, max_height))

\* the two replace() calls, then '</svg>'.  They rewrite the envelope, and
\* with it every occurrence of the same characters in the document: those
\* can only lie in a time label or in a line of text (dates hold digits,
\* "-" and " " only)
UpdateHeight(doc, max_height) ==
  LET h == doc.header[1]
      h1 == IF h.height = svg_height THEN [h EXCEPT !.height = max_height]
            ELSE h
      h2 == IF h1.viewBox = <<0, 0, h.width, svg_height>>
            THEN [h1 EXCEPT !.viewBox = <<0, 0, h.width, max_height>>]
            ELSE h1
      relabelled(e) ==
        [e EXCEPT
           !.time = Relabel(@, h.width, max_height),
           !.lines = [j \in 1..Len(@) |->
                        [@[j] EXCEPT
                           !.line = Relabel(@, h.width, max_height)]]]
  IN  [header |-> <<h2>>,
       groups |-> [a \in 1..Len(doc.groups) |->
                     [doc.groups[a] EXCEPT
                        !.events = [q \in 1..Len(@) |-> relabelled(@[q])]]],
       closed |-> TRUE]

\* --------------------------------------- the whole of lines 14-143 at once
RECURSIVE RenderAll(_, _, _)
\* the outer loop from group k on: emitted groups and the final max_height
RenderAll(groups, k, max_height) ==
  IF k > Len(groups) THEN [out |-> <<>>, max_height |-> max_height]
  ELSE LET grp == RenderGroup(groups[k], initial_x + (k - 1) * date_spacing)
           rest ==
             RenderAll(groups, k + 1,
                       Max(max_height,
                           timeline_y + grp.connector.y2 + bottom_margin))
       IN  [out |-> <<grp>> \o rest.out, max_height |-> rest.max_height]

\* the document generate_timeline_svg builds for evs
Document(evs, dark) ==
  LET groups == GroupEvents(SortByDate(ProcessAll(evs)))
      r == RenderAll(groups, 1, timeline_y)
      svg == [header |-> <<Header(SvgWidth(Len(groups)), dark)>>,
              groups |-> r.out, closed |-> FALSE]
  IN  UpdateHeight(svg, r.max_height)

\* ------------------------------------------------------- the state machine
\* what print() raises when sys.stdout does not take the message: its
\* encoding cannot encode it (UnicodeEncodeError), the write fails (OSError),
\* it is closed (ValueError), it was deleted (RuntimeError, "lost
\* sys.stdout"), or it is an object without write() (AttributeError).
\* sys.stdout is whatever the caller has put there, and print() passes on
\* any other exception of its write(): BaseException stands for those
PrintErrors ==
  {"UnicodeEncodeError", "OSError", "ValueError", "RuntimeError",
   "AttributeError", "BaseException"}

\* what open(output_file, "w", encoding="utf-8") raises: the destination
\* cannot be opened, or the name holds a NUL (ValueError)
OpenErrors == {"OSError", "ValueError"}

\* what f.write(svg_content) raises: the text cannot be encoded as UTF-8 (a
\* lone surrogate), or the write of a full buffer fails
WriteErrors == {"UnicodeEncodeError", "OSError"}

\* what the close() at the end of the with block raises: the flush of what
\* write() left in the buffer fails
CloseErrors == {"OSError"}

\* no document yet
NoDocument == [header |-> <<>>, groups |-> <<>>, closed |-> FALSE]

\* the destination is as it was before the call: missing, or a file with
\* whatever it held
BeforeCall == [part |-> "before", doc |-> NoDocument]

\* open(output_file, "w") has truncated the file and nothing is in it
EmptyFile == [part |-> "none", doc |-> NoDocument]

\* the file holds the whole of doc
WholeFile(doc) == [part |-> "whole", doc |-> doc]

\* the file holds the beginning of doc, neither nothing nor all of it
PrefixFile(doc) == [part |-> "prefix", doc |-> doc]

VARIABLES
  events,            \* the argument: the list of event records
  dark_mode,         \* the argument: the colour theme
  pc,                \* where the call is
  i,                 \* index of the next record of the parsing loop
  processed_events,  \* the list of parsed records
  printed,           \* the records reported as ignored
  grouped_events,    \* the dict date_str -> day_events, in insertion order
  svg_width,
  max_height,
  current_x,
  y_offset,          \* the inner loop's y_offset when it last ended
  g,                 \* index of the next group of the rendering loop
  svg_content,       \* the document built so far
  file_state,        \* the output file: "none", "open" or "closed"
  file_content,      \* what the destination holds once the buffer is
                     \* flushed: BeforeCall, EmptyFile, PrefixFile(doc)
                     \* or WholeFile(doc)
  opens,             \* how many times open() was called
  error              \* the exception the call ended with, or "none"

vars == <<events, dark_mode, pc, i, processed_events, printed, grouped_events,
          svg_width, max_height, current_x, y_offset, g, svg_content,
          file_state, file_content, opens, error>>

Init ==
  /\ events \in SmallInputs \cup WideInputs
  /\ dark_mode \in BOOLEAN
  /\ pc = "parse"
  /\ i = 1
  /\ processed_events = <<>>
  /\ printed = <<>>
  /\ grouped_events = <<>>
  /\ svg_width = 0
  /\ max_height = 0
  /\ current_x = 0
  /\ y_offset = 0
  /\ g = 1
  /\ svg_content = NoDocument
  /\ file_state = "none"
  /\ file_content = BeforeCall
  /\ opens = 0
  /\ error = "none"

\* lines 15-23: the date parses, the record is appended
ParseEvent ==
  /\ pc = "parse"
  /\ i <= Len(events)
  /\ ParseDate(events[i].date).ok
  /\ processed_events' = ProcessEvent(processed_events, events[i])
  /\ i' = i + 1
  /\ UNCHANGED <<events, dark_mode, pc, printed, grouped_events, svg_width,
                 max_height, current_x, y_offset, g, svg_content, file_state,
                 file_content, opens, error>>

\* lines 15-17, 24-25: strptime raises ValueError, the record is reported
\* and the loop goes on; or the print() of line 25 raises inside the except
\* block, and that error leaves the call
SkipEvent ==
  /\ pc = "parse"
  /\ i <= Len(events)
  /\ ~ParseDate(events[i].date).ok
  /\ \/ /\ processed_events' = ProcessEvent(processed_events, events[i])
        /\ printed' = Append(printed, events[i])
        /\ i' = i + 1
        /\ UNCHANGED <<pc, error>>
     \/ /\ error' \in PrintErrors
        /\ pc' = "raised"
        /\ UNCHANGED <<processed_events, printed, i>>
  /\ UNCHANGED <<events, dark_mode, grouped_events, svg_width,
                 max_height, current_x, y_offset, g, svg_content, file_state,
                 file_content, opens>>

\* line 28
Sort ==
  /\ pc = "parse"
  /\ i > Len(events)
  /\ processed_events' = SortByDate(processed_events)
  /\ pc' = "group"
  /\ UNCHANGED <<events, dark_mode, i, printed, grouped_events, svg_width,
                 max_height, current_x, y_offset, g, svg_content, file_state,
                 file_content, opens, error>>

\* lines 31-36
Group ==
  /\ pc = "group"
  /\ grouped_events' = GroupEvents(processed_events)
  /\ pc' = "layout"
  /\ UNCHANGED <<events, dark_mode, i, processed_events, printed, svg_width,
                 max_height, current_x, y_offset, g, svg_content, file_state,
                 file_content, opens, error>>

\* lines 39-83: the layout parameters, the theme and the head of the document
Layout ==
  /\ pc = "layout"
  /\ svg_width' = SvgWidth(Len(grouped_events))
  /\ current_x' = initial_x
  /\ svg_content' = [header |-> <<Header(SvgWidth(Len(grouped_events)),
                                         dark_mode)>>,
                     groups |-> <<>>, closed |-> FALSE]
  /\ max_height' = timeline_y
  /\ g' = 1
  /\ pc' = "render"
  /\ UNCHANGED <<events, dark_mode, i, processed_events, printed,
                 grouped_events, y_offset, file_state, file_content, opens,
                 error>>

\* lines 84-131: one iteration of the loop over the day groups
RenderDay ==
  /\ pc = "render"
  /\ g <= Len(grouped_events)
  /\ LET day_events == grouped_events[g].day_events
         total_height == TotalHeight(day_events)
     IN  /\ svg_content' =
              [svg_content EXCEPT
                 !.groups = Append(@, RenderGroup(grouped_events[g], current_x))]
         /\ y_offset' = RenderEvents(day_events, 0).y_offset
         /\ max_height' = Max(max_height,
                              timeline_y + total_height + bottom_margin)
  /\ current_x' = current_x + date_spacing
  /\ g' = g + 1
  /\ UNCHANGED <<events, dark_mode, pc, i, processed_events, printed,
                 grouped_events, svg_width, file_state, file_content, opens,
                 error>>

\* lines 134-143: the final height goes into the envelope, the document ends
Finalize ==
  /\ pc = "render"
  /\ g > Len(grouped_events)
  /\ svg_content' = UpdateHeight(svg_content, max_height)
  /\ pc' = "open"
  /\ UNCHANGED <<events, dark_mode, i, processed_events, printed,
                 grouped_events, svg_width, max_height, current_x, y_offset,
                 g, file_state, file_content, opens, error>>

\* line 146: open(output_file, "w") succeeds and truncates the file
OpenFile ==
  /\ pc = "open"
  /\ opens' = opens + 1
  /\ file_state' = "open"
  /\ file_content' = EmptyFile
  /\ pc' = "write"
  /\ UNCHANGED <<events, dark_mode, i, processed_events, printed,
                 grouped_events, svg_width, max_height, current_x, y_offset,
                 g, svg_content, error>>

\* line 146: open() raises, which leaves the call; the destination stays
\* as it was
OpenFails ==
  /\ pc = "open"
  /\ opens' = opens + 1
  /\ error' \in OpenErrors
  /\ pc' = "raised"
  /\ UNCHANGED <<events, dark_mode, i, processed_events, printed,
                 grouped_events, svg_width, max_height, current_x, y_offset,
                 g, svg_content, file_state, file_content>>

\* line 147: f.write(svg_content) returns: the document is in the file or
\* in its buffer
WriteFile ==
  /\ pc = "write"
  /\ file_content' = WholeFile(svg_content)
  /\ pc' = "close"
  /\ UNCHANGED <<events, dark_mode, i, processed_events, printed,
                 grouped_events, svg_width, max_height, current_x, y_offset,
                 g, svg_content, file_state, opens, error>>

\* line 147: f.write() raises; the with block still runs its exit.  The
\* text is encoded before anything is written, so an encoding error leaves
\* the file empty; a failed write leaves nothing or a beginning of it
WriteFails ==
  /\ pc = "write"
  /\ error' \in WriteErrors
  /\ file_content' \in (IF error' = "OSError"
                        THEN {EmptyFile, PrefixFile(svg_content)}
                        ELSE {EmptyFile})
  /\ pc' = "close"
  /\ UNCHANGED <<events, dark_mode, i, processed_events, printed,
                 grouped_events, svg_width, max_height, current_x, y_offset,
                 g, svg_content, file_state, opens>>

\* lines 146-149: leaving the with block closes the file.  An exception
\* pending from write() goes on to the caller.  Otherwise close() flushes
\* the buffer: if that fails, the file is closed all the same, holds nothing
\* or a beginning of the document, and the error leaves the call; if not,
\* the print() of line 149 reports the file and the call returns, or that
\* print() raises with the file written and closed
CloseFile ==
  /\ pc = "close"
  /\ file_state' = "closed"
  /\ \/ /\ error # "none"
        /\ pc' = "raised"
        /\ UNCHANGED <<file_content, error>>
     \/ /\ error = "none"
        /\ pc' = "done"
        /\ UNCHANGED <<file_content, error>>
     \/ /\ error = "none"
        /\ error' \in CloseErrors
        /\ file_content' \in {EmptyFile, PrefixFile(svg_content)}
        /\ pc' = "raised"
     \/ /\ error = "none"
        /\ error' \in PrintErrors
        /\ pc' = "raised"
        /\ UNCHANGED file_content
  /\ UNCHANGED <<events, dark_mode, i, processed_events, printed,
                 grouped_events, svg_width, max_height, current_x, y_offset,
                 g, svg_content, opens>>

Next ==
  \/ ParseEvent
  \/ SkipEvent
  \/ Sort
  \/ Group
  \/ Layout
  \/ RenderDay
  \/ Finalize
  \/ OpenFile
  \/ OpenFails
  \/ WriteFile
  \/ WriteFails
  \/ CloseFile

Spec == Init /\ [][Next]_vars

\* the call has returned or raised
Terminated == pc \in {"done", "raised"}

\* the document is complete (lines 14-143 have run)
Built == pc \in {"open", "write", "close", "done", "raised"} /\ svg_content.closed

\* the document has just been completed (line 143), or the call has returned
\* and the file holds it; no step in between changes svg_content
Produced == pc \in {"open", "done"}

\* --------------------------------------------------------------- the claims
\* the records whose date parses, in the order supplied
ValidOnly(evs) == SelectSeq(evs, LAMBDA e : ParseDate(e.date).ok)

InvalidOnly(evs) == SelectSeq(evs, LAMBDA e : ~ParseDate(e.date).ok)

ValidIdx == {k \in 1..Len(events) : ParseDate(events[k].date).ok}

EmittedGroups == svg_content.groups

DayOf(date_str) == ParseDate(date_str).val

Envelope == svg_content.header[1]

RECURSIVE DaysOf(_)
\* the calendar days of the groups gs, in their order
DaysOf(gs) ==
  IF gs = <<>> THEN <<>>
  ELSE Append(DaysOf(Front(gs)), DayOf(Last(gs).date_str))

\* C1: the day groups are emitted in non-decreasing order of their date, the
\* group at index a (from 0) at x = 80 + 160*a, so that a group of an earlier
\* date lies strictly to the left of a group of a later date; events on
\* 2023-01-15 and 2023-03-10 only give exactly these two groups in that order.
C1_GroupsInDateOrder ==
  /\ \A a \in 1..Len(EmittedGroups) :
       EmittedGroups[a].x = initial_x + date_spacing * (a - 1)
  /\ LET day == DaysOf(EmittedGroups)
     IN  /\ \A a, b \in 1..Len(EmittedGroups) : a < b => day[a] <= day[b]
         /\ \A a, b \in 1..Len(EmittedGroups) :
              day[a] < day[b] => EmittedGroups[a].x < EmittedGroups[b].x
  /\ (Built /\ {events[k].date : k \in ValidIdx}
                 = {Chars_2023_01_15, Chars_2023_03_10})
       => /\ Len(EmittedGroups) = 2
          /\ EmittedGroups[1].date_str = Chars_2023_01_15
          /\ EmittedGroups[2].date_str = Chars_2023_03_10
          /\ EmittedGroups[1].x < EmittedGroups[2].x

\* the later day was supplied first, and both groups are out
C1_Witness ==
  /\ Built
  /\ Len(events) = 2
  /\ events[1].date = Chars_2023_03_10
  /\ events[2].date = Chars_2023_01_15
  /\ Len(EmittedGroups) = 2

\* what one emitted event shows of its record, once the document is final
Shown(e) ==
  [time |-> Relabel(e.time, svg_width, max_height),
   lines |-> [j \in 1..Len(WrapText(e.text)) |->
                [RenderLines(WrapText(e.text))[j] EXCEPT
                   !.line = Relabel(@, svg_width, max_height)]]]

ShownOfGroup(grp) ==
  [q \in 1..Len(grp.events) |->
     [time |-> grp.events[q].time, lines |-> grp.events[q].lines]]

\* the valid records of calendar day d, as supplied
RecordsOfDay(d) ==
  LET on == SelectSeq(events,
                      LAMBDA e : ParseDate(e.date).ok /\ DayOf(e.date) = d)
  IN  [q \in 1..Len(on) |-> Shown(on[q])]

\* C2: for every calendar date carried by a record whose date parses, the
\* output has exactly one day group for that date, and that group holds all
\* the valid records of the date in the order supplied.
C2_OneGroupPerCalendarDate ==
  Built =>
    \A k \in ValidIdx :
      LET d == DayOf(events[k].date)
          of_day == {a \in 1..Len(EmittedGroups) :
                       DayOf(EmittedGroups[a].date_str) = d}
      IN  /\ Cardinality(of_day) = 1
          /\ \A a \in of_day : ShownOfGroup(EmittedGroups[a]) = RecordsOfDay(d)

\* C3: a record whose date does not parse is skipped without aborting the
\* run: the call never ends before the document is complete, and the
\* document (groups, positions, heights, canvas size) is the one produced
\* for the list without the unparseable records, exactly those having been
\* reported.
C3_SkippedWithoutAborting ==
  /\ pc = "raised" => Built
  /\ Produced => LET without == Document(ValidOnly(events), dark_mode)
                 IN  /\ svg_content = without
                     /\ svg_width = without.header[1].width
                     /\ printed = InvalidOnly(events)

\* C4: the canvas width is max(minimum width, number of day groups x slot
\* width), the slot width being the pitch at which the groups are placed; it
\* does not decrease with the number of distinct dates and is never below 1100.
C4_WidthFromSlots ==
  (pc \in {"render", "open", "write", "close", "done"} \/ Built) =>
    /\ svg_width = Max(min_width, Len(grouped_events) * date_spacing)
    /\ svg_width >= min_width
    /\ Len(grouped_events) > 0 => svg_width >= SvgWidth(Len(grouped_events) - 1)

\* the theme-bearing colours blanked out
StripTheme(doc) ==
  [doc EXCEPT !.header =
     <<[doc.header[1] EXCEPT !.style =
          [@ EXCEPT !.background_fill = "", !.timeline_stroke = "",
                    !.connector_stroke = "", !.circle_stroke = "",
                    !.date_fill = "", !.time_fill = "", !.event_fill = ""]]>>]

\* C5: the documents for dark_mode=True and dark_mode=False differ only in
\* the five theme colours (background, primary text, secondary text, baseline,
\* connector): sizes, positions, offsets, connector lengths and texts agree.
C5_ThemeChangesColoursOnly ==
  Produced =>
    LET other == Document(events, ~dark_mode)
    IN  /\ StripTheme(svg_content) = StripTheme(other)
        /\ Envelope.style.background_fill = Palette(dark_mode).bg_color
        /\ Envelope.style.circle_stroke = Palette(dark_mode).bg_color
        /\ Envelope.style.date_fill = Palette(dark_mode).text_color
        /\ Envelope.style.event_fill = Palette(dark_mode).text_color
        /\ Envelope.style.time_fill = Palette(dark_mode).secondary_text
        /\ Envelope.style.timeline_stroke = Palette(dark_mode).line_color
        /\ Envelope.style.connector_stroke = Palette(dark_mode).connector_color
        /\ \A f \in {"bg_color", "text_color", "secondary_text", "line_color",
                     "connector_color"} :
             Palette(dark_mode)[f] # Palette(~dark_mode)[f]

\* a dark document with several events in one group
C5_Witness ==
  /\ Produced
  /\ dark_mode
  /\ \E a \in 1..Len(EmittedGroups) : Len(EmittedGroups[a].events) >= 2

\* C6: an empty list, or one whose records are all discarded, is no error
\* and produces a document: the call never ends before the document is
\* complete, and the document has no day group, only the baseline, and the
\* least canvas height there is, the one the running maximum starts from.
C6_EmptyInputMinimalDocument ==
  /\ (ValidOnly(events) = <<>> /\ pc = "raised") => Built
  /\ (Built /\ ValidOnly(events) = <<>>) =>
       /\ EmittedGroups = <<>>
       /\ Envelope.height = timeline_y
       /\ Envelope.viewBox = <<0, 0, min_width, timeline_y>>
       /\ Envelope.width = min_width
       /\ Envelope.baseline = [x1 |-> line_margin, y1 |-> timeline_y,
                               x2 |-> min_width - line_margin,
                               y2 |-> timeline_y]
       /\ (pc = "open" => error = "none")
  /\ Built => Envelope.height >= timeline_y

RECURSIVE SumShown(_)
\* the sum over emitted events of (number of lines x 15) + 10
SumShown(evs) ==
  IF evs = <<>> THEN 0
  ELSE Len(Head(evs).lines) * line_height + event_padding + SumShown(Tail(evs))

RECURSIVE RunningMax(_)
\* the greatest of 100 and 100 + group height + 50 over the groups of gs
RunningMax(gs) ==
  IF gs = <<>> THEN timeline_y
  ELSE Max(RunningMax(Front(gs)),
           timeline_y + Last(gs).connector.y2 + bottom_margin)

\* C7: an event needs (lines x 15) + 10, a day group the sum over its events
\* plus (event count x 10), and the height in the envelope (height and
\* viewBox) is the running maximum over the groups of 100 + group height + 50.
C7_VerticalSizing ==
  /\ \A a \in 1..Len(EmittedGroups) :
       EmittedGroups[a].connector.y2
         = SumShown(EmittedGroups[a].events)
             + Len(EmittedGroups[a].events) * event_gap
  /\ pc = "render" => max_height = RunningMax(EmittedGroups)
  /\ Built =>
       /\ Envelope.height = RunningMax(EmittedGroups)
       /\ Envelope.viewBox = <<0, 0, svg_width, RunningMax(EmittedGroups)>>
       /\ \A a \in 1..Len(EmittedGroups) :
            Envelope.height
              >= timeline_y + EmittedGroups[a].connector.y2 + bottom_margin
       /\ EmittedGroups # <<>> =>
            \E a \in 1..Len(EmittedGroups) :
              Envelope.height
                = timeline_y + EmittedGroups[a].connector.y2 + bottom_margin

\* two groups of different heights, the later one the shorter
C7_Witness ==
  /\ Built
  /\ Len(EmittedGroups) = 2
  /\ EmittedGroups[1].connector.y2 > EmittedGroups[2].connector.y2
  /\ Envelope.height # svg_height

\* open(), write() or close() raised: the failure of the destination that
\* is passed on to the caller
DestinationFailed ==
  /\ pc = "raised"
  /\ opens = 1
  /\ file_content # WholeFile(svg_content)

\* C8: the destination is open only between open() and the end of the with
\* block and is never left open, and on every exit path, one after skipped
\* records included, the call has opened the destination, written the full
\* document and closed it, unless the destination itself failed.
C8_WrittenOnEveryExit ==
  /\ file_state = "open" => pc \in {"write", "close"}
  /\ Terminated => file_state # "open"
  /\ (Terminated /\ ~DestinationFailed) =>
       /\ opens = 1
       /\ file_state = "closed"
       /\ file_content = WholeFile(svg_content)

\* the valid records whose text wraps to no line
ZeroLineIdx == {k \in ValidIdx : WrapText(events[k].text) = <<>>}

RemoveAt(s, k) == SubSeq(s, 1, k - 1) \o SubSeq(s, k + 1, Len(s))

\* the group of date string ds in a document, as a set of indices
GroupIdx(doc, ds) == {a \in 1..Len(doc.groups) : doc.groups[a].date_str = ds}

\* the place of record k inside its day group
PlaceInGroup(k) ==
  Cardinality({j \in ValidIdx : j <= k /\ events[j].date = events[k].date})

\* C9 as stated: an event of no wrapped line adds nothing: with it, the
\* group's height, the offsets of the events after it and the canvas height
\* are what they are without it.
C9_ZeroLinesZeroHeight ==
  Produced =>
    \A k \in ZeroLineIdx :
      LET other == Document(RemoveAt(events, k), dark_mode)
      IN  \A a \in GroupIdx(svg_content, events[k].date) :
            \A b \in GroupIdx(other, events[k].date) :
              /\ EmittedGroups[a].connector.y2 = other.groups[b].connector.y2
              /\ \A q \in (PlaceInGroup(k) + 1)..Len(EmittedGroups[a].events) :
                   EmittedGroups[a].events[q].y = other.groups[b].events[q - 1].y
              /\ Envelope.height = other.header[1].height

\* C9, amended: an event of no wrapped line has no line height but keeps the
\* padding (10) and the gap (10): with it the group is exactly 20 higher, the
\* events after it lie 20 lower, and the canvas height is the greater of the
\* height without it and 100 + the group's new height + 50.
C9_ZeroLinesKeepPadding ==
  Produced =>
    \A k \in ZeroLineIdx :
      LET other == Document(RemoveAt(events, k), dark_mode)
      IN  \A a \in GroupIdx(svg_content, events[k].date) :
            /\ EmittedGroups[a].events[PlaceInGroup(k)].lines = <<>>
            /\ \A b \in GroupIdx(other, events[k].date) :
                 /\ EmittedGroups[a].connector.y2
                      = other.groups[b].connector.y2 + event_padding + event_gap
                 /\ \A q \in (PlaceInGroup(k) + 1)..Len(EmittedGroups[a].events) :
                      EmittedGroups[a].events[q].y
                        = other.groups[b].events[q - 1].y + event_step
                 /\ Envelope.height
                      = Max(other.header[1].height,
                            timeline_y + EmittedGroups[a].connector.y2
                              + bottom_margin)

\* an event of no line, then an event of the same day after it
C9_Witness ==
  /\ Produced
  /\ \E k \in ZeroLineIdx :
       \E j \in ValidIdx : j > k /\ events[j].date = events[k].date

RECURSIVE StepsBefore(_, _)
\* the sum of (15 x lines + 20) over the first q-1 emitted events
StepsBefore(evs, q) ==
  IF q <= 1 THEN 0
  ELSE StepsBefore(evs, q - 1)
         + line_height * Len(evs[q - 1].lines) + event_step

\* C10: every positioned element lies inside the canvas: each anchor x
\* (80 + 160*a) within the baseline [50, width - 50]; each event's offset is
\* the sum of (15 x lines + 20) over the events before it and below the
\* connector length, the offset after the last event is the connector length;
\* the connector's bottom (100 + 25 + length) is within the canvas height.
C10_LayoutContained ==
  /\ \A a \in 1..Len(EmittedGroups) :
       LET grp == EmittedGroups[a]
       IN  /\ grp.x = initial_x + date_spacing * (a - 1)
           /\ Envelope.baseline.x1 = line_margin
           /\ Envelope.baseline.x2 = svg_width - line_margin
           /\ Envelope.baseline.x1 <= grp.x
           /\ grp.x <= Envelope.baseline.x2
           /\ Envelope.baseline.x2 <= Envelope.width
           /\ grp.y + grp.label_y >= 0
           /\ \A q \in 1..Len(grp.events) :
                /\ grp.events[q].y = StepsBefore(grp.events, q)
                /\ grp.events[q].y < grp.connector.y2
                /\ grp.events[q].y >= 0
           /\ StepsBefore(grp.events, Len(grp.events) + 1) = grp.connector.y2
           /\ Built =>
                /\ grp.y + grp.container_dy + grp.connector.y2
                     <= Envelope.height
                /\ \A q \in 1..Len(grp.events) :
                     \A j \in 1..Len(grp.events[q].lines) :
                       grp.y + grp.container_dy + grp.events[q].y
                         + grp.events[q].lines[j].y <= Envelope.height
  /\ (pc = "render" /\ g > 1)
       => y_offset = EmittedGroups[g - 1].connector.y2

\* more day groups than the minimum width was sized for
C10_Witness ==
  /\ Built
  /\ Len(EmittedGroups) >= 7
  /\ svg_width > min_width
====
